---- MODULE Spec2Model ----
(***************************************************************************)
(* k6r: conversion of k6 load-test output (handleSummary JSON or the       *)
(* --out json event log) into a Markdown report.  Model of src/main.rs.    *)
(*                                                                         *)
(* Text is modelled at the level the code inspects it:                     *)
(*   - an input file is a sequence of lines (content.lines());             *)
(*   - a line is blank, non-JSON text, a complete JSON value, or one half  *)
(*     of a JSON object printed over two lines;                            *)
(*   - a JSON value is a tagged record [k, v];                             *)
(*   - a timestamp string is the sequence of its tokens, where the         *)
(*     separators 'T', '+', '-', ':' are tokens of their own.              *)
(* An f64 is [k |-> "fin", v |-> <<n, d>>] (the exact rational n/d),       *)
(* [k |-> "nan"] or [k |-> "inf"]; a result beyond F64Max is an infinity,  *)
(* rounding of finite values is not modelled.  Option<T> is <<>> (None)    *)
(* or <<x>> (Some(x)).                                                     *)
(***************************************************************************)
EXTENDS Integers, Sequences, FiniteSets, TLC

VARIABLES
    pc,          \* position in main / parse_jsonl / a direct call
    content,     \* the input file: a sequence of lines
    i,           \* parse_jsonl: index of the next line of the for loop
    collectors,  \* parse_jsonl: HashMap<String, MetricCollector>
    first_time,  \* parse_jsonl: Option<String>
    last_time,   \* parse_jsonl: Option<String>
    format,      \* main: Option<FileFormat>, the result of detect_format
    summary,     \* Option<K6Summary>
    markdown,    \* Option<String>: the report text, a sequence of rows
    output,      \* main: Option of the text written to the output file
    error,       \* main: Option of the error main returned
    steps,       \* the steps of main performed so far, in order
    reports,     \* the texts generate_report has returned for `summary`
    samples,     \* calculate_stats: the values argument
    kind,        \* calculate_stats: the metric_type argument
    stats,       \* calculate_stats: Option<HashMap<String, f64>>
    percent,     \* percentile: the p argument
    result,      \* percentile: Option<f64>, the value returned
    reads        \* percentile: the indices of `sorted` it has read

vars == <<pc, content, i, collectors, first_time, last_time, format, summary,
          markdown, output, error, steps, reports, samples, kind, stats,
          percent, result, reads>>

None == <<>>
Some(x) == <<x>>
IsSome(o) == o # <<>>
Unwrap(o) == o[1]

\* The empty HashMap.
EmptyMap == [x \in {} |-> x]

(***************************************************************************)
(* f64 arithmetic                                                          *)
(***************************************************************************)
RECURSIVE Gcd(_, _)
Gcd(a, b) == IF b = 0 THEN a ELSE Gcd(b, a % b)

Abs(n) == IF n < 0 THEN -n ELSE n

\* The rational n/d in lowest terms with a positive denominator.
Rat(n, d) ==
    LET s == IF d < 0 THEN -1 ELSE 1
        g == Gcd(Abs(n), Abs(d))
    IN  <<(s * n) \div g, (s * d) \div g>>

NaN == [k |-> "nan", v |-> <<0, 1>>]
Inf == [k |-> "inf", v |-> <<1, 1>>]
NegInf == [k |-> "inf", v |-> <<-1, 1>>]

\* The largest finite value.  f64::MAX is about 1.8e308; the model keeps
\* the overflow of f64 arithmetic at a range that fits its integers.
F64Max == 38000000

\* The f64 result of an operation whose exact result is n/d: the value
\* itself within the finite range, an infinity beyond it.
Fin(n, d) ==
    LET r == Rat(n, d)
        whole == Abs(r[1]) \div r[2]
    IN  IF whole > F64Max \/ (whole = F64Max /\ Abs(r[1]) % r[2] # 0)
        THEN (IF r[1] > 0 THEN Inf ELSE NegInf)
        ELSE [k |-> "fin", v |-> r]
F(n) == Fin(n, 1)

IsFin(x) == x.k = "fin"
Sign(x) == IF x.v[1] > 0 THEN 1 ELSE IF x.v[1] < 0 THEN -1 ELSE 0

FNeg(x) == [k |-> x.k, v |-> <<-x.v[1], x.v[2]>>]

FAdd(x, y) ==
    IF x.k = "nan" \/ y.k = "nan" THEN NaN
    ELSE IF x.k = "inf" /\ y.k = "inf" THEN (IF x = y THEN x ELSE NaN)
    ELSE IF x.k = "inf" THEN x
    ELSE IF y.k = "inf" THEN y
    ELSE Fin(x.v[1] * y.v[2] + y.v[1] * x.v[2], x.v[2] * y.v[2])

FSub(x, y) == FAdd(x, FNeg(y))

FMul(x, y) ==
    IF x.k = "nan" \/ y.k = "nan" THEN NaN
    ELSE IF x.k = "inf" \/ y.k = "inf"
         THEN (IF Sign(x) * Sign(y) = 0 THEN NaN
               ELSE IF Sign(x) * Sign(y) > 0 THEN Inf ELSE NegInf)
    ELSE Fin(x.v[1] * y.v[1], x.v[2] * y.v[2])

FDiv(x, y) ==
    IF x.k = "nan" \/ y.k = "nan" THEN NaN
    ELSE IF x.k = "inf" /\ y.k = "inf" THEN NaN
    ELSE IF x.k = "inf" THEN (IF Sign(y) >= 0 THEN x ELSE FNeg(x))
    ELSE IF y.k = "inf" THEN F(0)
    ELSE IF Sign(y) = 0
         THEN (IF Sign(x) = 0 THEN NaN ELSE IF Sign(x) > 0 THEN Inf ELSE NegInf)
    ELSE Fin(x.v[1] * y.v[2], x.v[2] * y.v[1])

\* f64::abs
FAbs(x) == IF x.k = "nan" THEN NaN ELSE [k |-> x.k, v |-> <<Abs(x.v[1]), x.v[2]>>]

\* x < y on f64: false when either side is NaN.
FLt(x, y) ==
    IF x.k = "nan" \/ y.k = "nan" THEN FALSE
    ELSE IF x.k = "inf" THEN Sign(x) < 0 /\ x # y
    ELSE IF y.k = "inf" THEN Sign(y) > 0
    ELSE x.v[1] * y.v[2] < y.v[1] * x.v[2]

FGe(x, y) ==
    IF x.k = "nan" \/ y.k = "nan" THEN FALSE ELSE ~FLt(x, y)

\* f64::max: the other operand when one is NaN.
FMax(x, y) ==
    IF x.k = "nan" THEN y ELSE IF y.k = "nan" THEN x
    ELSE IF FLt(x, y) THEN y ELSE x

\* floor and ceil of a finite value, as integers.
Floor(x) == x.v[1] \div x.v[2]
Ceil(x) == -((-x.v[1]) \div x.v[2])

(***************************************************************************)
(* JSON text and serde deserialization                                     *)
(***************************************************************************)
JNull == [k |-> "null", v |-> <<>>]
JStr(s) == [k |-> "str", v |-> s]
JNum(n) == [k |-> "num", v |-> n]
JArr(s) == [k |-> "arr", v |-> s]
JObj(f) == [k |-> "obj", v |-> f]

\* Lines of the input, as line.trim() sees them.
Blank == [t |-> "blank", v |-> JNull]      \* empty or whitespace only
Garbage == [t |-> "text", v |-> JNull]     \* not JSON, first character not '{'
Broken == [t |-> "broken", v |-> JNull]    \* first character '{', not JSON
Json(val) == [t |-> "json", v |-> val]     \* one complete JSON value
Open(key) == [t |-> "open", v |-> JStr(key)]   \* the text {"<key>": {
Close == [t |-> "close", v |-> JNull]      \* the text }}

\* str::trim on the whole file: leading and trailing whitespace removed.
RECURSIVE TrimStart(_)
TrimStart(ls) ==
    IF ls # <<>> /\ ls[1].t = "blank" THEN TrimStart(Tail(ls)) ELSE ls

RECURSIVE TrimEnd(_)
TrimEnd(ls) ==
    IF ls # <<>> /\ ls[Len(ls)].t = "blank"
    THEN TrimEnd(SubSeq(ls, 1, Len(ls) - 1)) ELSE ls

Trim(ls) == TrimEnd(TrimStart(ls))

\* trimmed.starts_with('{')
StartsWithBrace(ls) ==
    /\ ls # <<>>
    /\ \/ ls[1].t \in {"broken", "open"}
       \/ ls[1].t = "json" /\ ls[1].v.k = "obj"

\* serde_json::from_str::<serde_json::Value> on a text of several lines:
\* exactly one JSON value, surrounded and interleaved by whitespace only.
FromStrValue(ls) ==
    LET nb == SelectSeq(ls, LAMBDA l : l.t # "blank")
    IN  IF Len(nb) = 1 /\ nb[1].t = "json" THEN Some(nb[1].v)
        ELSE IF Len(nb) = 2 /\ nb[1].t = "open" /\ nb[2].t = "close"
             THEN Some(JObj(nb[1].v.v :> JObj(EmptyMap)))
        ELSE None

\* Value::get(key).is_some()
HasKey(val, key) == val.k = "obj" /\ key \in DOMAIN val.v

\* A field of type Option<String> / Option<f64> / Option<HashMap>: absent or
\* null is None, a value of the type is Some, anything else is an error.
OptFieldOk(o, key, type) == key \notin DOMAIN o \/ o[key].k \in {"null", type}
OptField(o, key, type) ==
    IF key \in DOMAIN o /\ o[key].k = type THEN Some(o[key].v) ELSE None

\* #[serde(default)] thresholds: Vec<String>
ThresholdsFieldOk(o) ==
    "thresholds" \notin DOMAIN o
    \/ /\ o["thresholds"].k = "arr"
       /\ \A n \in DOMAIN o["thresholds"].v : o["thresholds"].v[n].k = "str"
ThresholdsField(o) ==
    IF "thresholds" \in DOMAIN o
    THEN [n \in DOMAIN o["thresholds"].v |-> o["thresholds"].v[n].v]
    ELSE <<>>

JsonlDataOk(d) ==
    /\ d.k = "obj"
    /\ OptFieldOk(d.v, "type", "str")
    /\ OptFieldOk(d.v, "contains", "str")
    /\ ThresholdsFieldOk(d.v)
    /\ OptFieldOk(d.v, "time", "str")
    /\ OptFieldOk(d.v, "value", "num")
    /\ OptFieldOk(d.v, "tags", "obj")

JsonlData(d) ==
    [metric_type |-> OptField(d.v, "type", "str"),
     contains |-> OptField(d.v, "contains", "str"),
     thresholds |-> ThresholdsField(d.v),
     time |-> OptField(d.v, "time", "str"),
     value |-> OptField(d.v, "value", "num"),
     tags |-> OptField(d.v, "tags", "obj")]

\* serde_json::from_str::<JsonlLine>(line): Some(entry) for Ok, None for Err.
JsonlLine(line) ==
    IF /\ line.t = "json"
       /\ line.v.k = "obj"
       /\ {"type", "metric", "data"} \subseteq DOMAIN line.v.v
       /\ line.v.v["type"].k = "str"
       /\ line.v.v["metric"].k = "str"
       /\ JsonlDataOk(line.v.v["data"])
    THEN Some([line_type |-> line.v.v["type"].v,
               metric |-> line.v.v["metric"].v,
               data |-> JsonlData(line.v.v["data"])])
    ELSE None

(***************************************************************************)
(* Timestamps                                                              *)
(***************************************************************************)
\* str::split(sep): the pieces between the separator tokens.
RECURSIVE Split(_, _)
Split(s, sep) ==
    IF \A n \in DOMAIN s : s[n] # sep THEN <<s>>
    ELSE LET p == CHOOSE n \in DOMAIN s :
                      s[n] = sep /\ \A m \in 1..(n - 1) : s[m] # sep
         IN  <<SubSeq(s, 1, p - 1)>> \o Split(SubSeq(s, p + 1, Len(s)), sep)

\* str::parse::<f64> on one component.  A component is the text between two
\* separators, so it is at most one token.  Rust's grammar accepts decimal
\* numbers and, case-insensitively, "nan", "inf" and "infinity".
ParseF64(comp) ==
    IF Len(comp) # 1 THEN None
    ELSE IF comp[1] = "00" THEN Some(F(0))
    ELSE IF comp[1] = "01" THEN Some(F(1))
    ELSE IF comp[1] = "02" THEN Some(F(2))
    ELSE IF comp[1] = "03" THEN Some(F(3))
    ELSE IF comp[1] = "10" THEN Some(F(10))
    ELSE IF comp[1] = "NaN" THEN Some(NaN)
    ELSE IF comp[1] = "inf" THEN Some(Inf)
    ELSE None

\* The closure parse_time of calculate_duration.
parse_time(s) ==
    LET parts == Split(s, "T")
    IN  IF Len(parts) # 2 THEN None
        ELSE LET time_part == Split(Split(parts[2], "+")[1], "-")[1]
                 time_components == Split(time_part, ":")
             IN  IF Len(time_components) # 3 THEN None
                 ELSE LET hours == ParseF64(time_components[1])
                          minutes == ParseF64(time_components[2])
                          seconds == ParseF64(time_components[3])
                      IN  IF hours = None \/ minutes = None \/ seconds = None
                          THEN None
                          ELSE Some(FMul(FAdd(FAdd(FMul(Unwrap(hours), F(3600)),
                                                   FMul(Unwrap(minutes), F(60))),
                                              Unwrap(seconds)),
                                         F(1000)))

calculate_duration(first, last) ==
    IF first = None \/ last = None THEN None
    ELSE LET first_ms == parse_time(Unwrap(first))
             last_ms == parse_time(Unwrap(last))
         IN  IF first_ms = None \/ last_ms = None THEN None
             ELSE Some(FAbs(FSub(Unwrap(last_ms), Unwrap(first_ms))))

(***************************************************************************)
(* Statistics engine                                                       *)
(***************************************************************************)
\* slice::sort_by: a stable sort.  The element at position j goes behind
\* every element that is less, and behind every earlier element it is not
\* less than.
StableSort(s, Less(_, _)) ==
    LET rank(j) == 1 + Cardinality({n \in DOMAIN s :
                        \/ Less(s[n], s[j])
                        \/ ~Less(s[j], s[n]) /\ n < j})
    IN  [r \in DOMAIN s |-> s[CHOOSE j \in DOMAIN s : rank(j) = r]]

\* values.iter().sum()
RECURSIVE Sum(_)
Sum(s) == IF s = <<>> THEN F(0) ELSE FAdd(Sum(SubSeq(s, 1, Len(s) - 1)), s[Len(s)])

percentile(sorted, p) ==
    IF sorted = <<>> THEN F(0)
    ELSE IF Len(sorted) = 1 THEN sorted[1]
    ELSE LET index == FMul(FDiv(p, F(100)), F(Len(sorted) - 1))
             lower == Floor(index)
             upper == Ceil(index)
             fraction == FSub(index, F(lower))
         IN  IF upper >= Len(sorted) THEN sorted[Len(sorted)]
             ELSE FAdd(sorted[lower + 1],
                       FMul(fraction, FSub(sorted[upper + 1], sorted[lower + 1])))

\* The indices percentile reads of `sorted`, counted from 0 as in the code.
percentileReads(sorted, p) ==
    IF sorted = <<>> THEN {}
    ELSE IF Len(sorted) = 1 THEN {0}
    ELSE LET index == FMul(FDiv(p, F(100)), F(Len(sorted) - 1))
             lower == Floor(index)
             upper == Ceil(index)
         IN  IF upper >= Len(sorted) THEN {Len(sorted) - 1}
             ELSE {lower, upper}

\* *sorted.first().unwrap_or(&0.0) and *sorted.last().unwrap_or(&0.0)
First(sorted) == IF sorted = <<>> THEN F(0) ELSE sorted[1]
Last(sorted) == IF sorted = <<>> THEN F(0) ELSE sorted[Len(sorted)]

\* Mutation of Passes: `>=` instead of `>`.
PassesNonNegative(values) ==
    F(Cardinality({n \in DOMAIN values : FGe(values[n], F(0))}))

\* values.iter().filter(|&&v| v > 0.0).count() as f64
Passes(values) ==
    F(Cardinality({n \in DOMAIN values : FLt(F(0), values[n])}))

\* Mutation of the denominator of the Counter rate: without .max(1.0).
DenominatorUnclamped(x, y) == x

\* The denominator of the Counter rate: (sum / 1000.0).max(1.0)
Denominator(x, y) == FMax(x, y)

StatsByKind(values, metric_type) ==
    LET sorted == StableSort(values, FLt)
        sum == Sum(values)
        count == F(Len(values))
    IN  CASE metric_type = "Counter" ->
               [key \in {"count", "rate"} |->
                   IF key = "count" THEN count
                   ELSE FDiv(count, Denominator(FDiv(sum, F(1000)), F(1)))]
          [] metric_type = "Rate" ->
               LET passes == Passes(values)
                   fails == FSub(count, passes)
               IN  [key \in {"rate", "passes", "fails"} |->
                       IF key = "rate" THEN FDiv(passes, count)
                       ELSE IF key = "passes" THEN passes ELSE fails]
          [] metric_type = "Gauge" ->
               [key \in {"value", "min", "max"} |->
                   IF key = "min" THEN First(sorted) ELSE Last(sorted)]
          [] metric_type = "Trend" ->
               [key \in {"avg", "min", "max", "med", "p(90)", "p(95)", "p(99)"} |->
                   CASE key = "avg" -> FDiv(sum, count)
                     [] key = "min" -> First(sorted)
                     [] key = "max" -> Last(sorted)
                     [] key = "med" -> percentile(sorted, F(50))
                     [] key = "p(90)" -> percentile(sorted, F(90))
                     [] key = "p(95)" -> percentile(sorted, F(95))
                     [] key = "p(99)" -> percentile(sorted, F(99))]

\* Mutation of calculate_stats: the early return on an empty list is missing.
calculate_statsNoEarlyReturn(values, metric_type) ==
    StatsByKind(values, metric_type)

calculate_stats(values, metric_type) ==
    IF values = <<>> THEN EmptyMap ELSE StatsByKind(values, metric_type)

(***************************************************************************)
(* Event-log parser, parse_jsonl                                           *)
(***************************************************************************)
\* The match on entry.data.metric_type of the "Metric" arm.
MetricTypeOf(declared) ==
    IF declared = Some("counter") THEN "Counter"
    ELSE IF declared = Some("rate") THEN "Rate"
    ELSE IF declared = Some("gauge") THEN "Gauge"
    ELSE "Trend"

MetricCollector(metric_type, contains_, values, thresholds) ==
    [metric_type |-> metric_type, contains |-> contains_,
     values |-> values, thresholds |-> thresholds]

\* Mutation of OrInsert: HashMap::insert, which replaces an existing entry.
OrInsertReplacing(map, key, val) ==
    [name \in DOMAIN map \cup {key} |-> IF name = key THEN val ELSE map[name]]

\* HashMap::entry(key).or_insert(val): the map afterwards.
OrInsert(map, key, val) ==
    IF key \in DOMAIN map THEN map ELSE map @@ (key :> val)

\* The tag test of the "Point" arm: true when the point is skipped.
\* Mutation of SkipPoint: every non-empty tag mapping skips the point.
SkipPointAnyTag(tags) ==
    /\ tags # None
    /\ DOMAIN Unwrap(tags) # {}

SkipPoint(tags) ==
    /\ tags # None
    /\ DOMAIN Unwrap(tags) # {}
    /\ {key \in DOMAIN Unwrap(tags) : key # "group"} # {}

\* first_time / last_time after the time tracking of an accepted value.
TrackFirst(first, time) == IF time # None /\ first = None THEN time ELSE first
TrackLast(last, time) == IF time # None THEN time ELSE last

\* Mutation of SkippedPoint: the skip comes before the time tracking.
SkippedPointUntracked(st, tracked) == st

\* The locals after the `continue` of a sub-metric point: st before the
\* Point arm, tracked after its time tracking.
SkippedPoint(st, tracked) == tracked

\* .values.push(value) on the collector of `name`.
PushValue(map, name, value) ==
    [map EXCEPT ![name].values = Append(@, value)]

\* One iteration of the for loop over content.lines(); st holds the three
\* locals collectors, first_time, last_time.
ProcessLine(st, line) ==
    IF line.t = "blank" THEN st
    ELSE LET parsed == JsonlLine(line)
         IN  IF parsed = None THEN st
             ELSE LET entry == Unwrap(parsed)
                  IN  CASE entry.line_type = "Metric" ->
                             [st EXCEPT !.collectors =
                                 OrInsert(@, entry.metric,
                                     MetricCollector(
                                         MetricTypeOf(entry.data.metric_type),
                                         IF entry.data.contains = None THEN ""
                                         ELSE Unwrap(entry.data.contains),
                                         <<>>,
                                         entry.data.thresholds))]
                        [] entry.line_type = "Point" ->
                             IF entry.data.value = None THEN st
                             ELSE LET tracked ==
                                        [st EXCEPT
                                           !.first_time = TrackFirst(@, entry.data.time),
                                           !.last_time = TrackLast(@, entry.data.time)]
                                  IN  IF SkipPoint(entry.data.tags) THEN SkippedPoint(st, tracked)
                                      ELSE [tracked EXCEPT !.collectors =
                                               PushValue(
                                                   OrInsert(@, entry.metric,
                                                       MetricCollector("Trend", "", <<>>, <<>>)),
                                                   entry.metric,
                                                   F(Unwrap(entry.data.value)))]
                        [] OTHER -> st

\* Mutation of PlaceholderThresholds: the placeholder is ok = false.
PlaceholderThresholdsFailing(thresholds) ==
    [expr \in {thresholds[n] : n \in DOMAIN thresholds} |-> [ok |-> FALSE]]

\* collector.thresholds.iter().map(|t| (t, Threshold { ok: true })).collect()
PlaceholderThresholds(thresholds) ==
    [expr \in {thresholds[n] : n \in DOMAIN thresholds} |-> [ok |-> TRUE]]

\* The loop "Convert collectors to metrics".
ConvertCollectors(cs) ==
    [name \in DOMAIN cs |->
        [metric_type |-> cs[name].metric_type,
         contains |-> cs[name].contains,
         values |-> calculate_stats(cs[name].values, cs[name].metric_type),
         thresholds |-> PlaceholderThresholds(cs[name].thresholds)]]

\* The K6Summary parse_jsonl returns from its locals after the loop.
JsonlSummary(st) ==
    LET duration_ms == calculate_duration(st.first_time, st.last_time)
    IN  [metrics |-> ConvertCollectors(st.collectors),
         root_group |-> None,
         state |-> IF duration_ms = None THEN None
                   ELSE Some([test_run_duration_ms |-> Unwrap(duration_ms)])]

EmptyState == [collectors |-> EmptyMap, first_time |-> None, last_time |-> None]

\* The for loop of parse_jsonl over the lines ls, from the locals st.
RECURSIVE ProcessLines(_, _)
ProcessLines(st, ls) ==
    IF ls = <<>> THEN st ELSE ProcessLines(ProcessLine(st, Head(ls)), Tail(ls))

\* parse_jsonl as a function of the lines of its argument.
parse_jsonl(ls) == JsonlSummary(ProcessLines(EmptyState, ls))

(***************************************************************************)
(* Inputs                                                                  *)
(***************************************************************************)
MaxLines == 3

Seqs(S, n) == UNION {[1..m -> S] : m \in 0..n}

\* 2024-01-01T10:00:<sec><sign>02:00
Stamp(sec, sign) ==
    <<"2024", "-", "01", "-", "01", "T", "10", ":", "00", ":", sec, sign, "02", ":", "00">>
StampUtc == <<"2024", "-", "01", "-", "01", "T", "10", ":", "00", ":", "00Z">>
StampNaN == <<"2024", "-", "01", "-", "01", "T", "NaN", ":", "00", ":", "00">>

Record(type, metric, data) ==
    Json(JObj([key \in {"type", "metric", "data"} |->
                  IF key = "type" THEN JStr(type)
                  ELSE IF key = "metric" THEN JStr(metric) ELSE JObj(data)]))

MetricRecord(metric, type, thresholds) ==
    Record("Metric", metric,
           [key \in {"type", "thresholds"} |->
               IF key = "type" THEN JStr(type)
               ELSE JArr([n \in DOMAIN thresholds |-> JStr(thresholds[n])])])

PointRecord(metric, value, time, tags) ==
    Record("Point", metric,
           [key \in {"value", "time", "tags"} |->
               IF key = "value" THEN JNum(value)
               ELSE IF key = "time" THEN JStr(time) ELSE tags])

\* The lines an event log is drawn from.
JsonlLines ==
    { Blank,
      Garbage,
      \* valid JSON that is no event record: "data" is missing
      Json(JObj([key \in {"type", "metric"} |->
                    IF key = "type" THEN JStr("Point") ELSE JStr("a")])),
      MetricRecord("a", "counter", <<"count>1", "rate>0">>),
      MetricRecord("a", "rate", <<>>),
      MetricRecord("b", "gauge", <<"value<9", "value<9">>),
      \* an unrecognised kind, contains "time", no thresholds key
      Record("Metric", "b", [key \in {"type", "contains"} |->
                                IF key = "type" THEN JStr("histogram") ELSE JStr("time")]),
      PointRecord("a", 1, Stamp("01", "+"), JNull),
      PointRecord("a", 3, Stamp("03", "+"), JObj("group" :> JStr(""))),
      PointRecord("a", 2, Stamp("02", "-"), JObj("status" :> JStr("200"))),
      \* no time, an empty tag mapping
      Record("Point", "b", [key \in {"value", "tags"} |->
                               IF key = "value" THEN JNum(0) ELSE JObj(EmptyMap)]),
      \* no numeric value
      Record("Point", "a", [key \in {"value", "time"} |->
                               IF key = "value" THEN JNull ELSE JStr(Stamp("10", "+"))]),
      PointRecord("b", 5, StampUtc, JNull),
      PointRecord("b", 2, StampNaN, JNull),
      Record("Foo", "a", EmptyMap) }

(***************************************************************************)
(* Formatting utilities                                                    *)
(***************************************************************************)
TwoDigits(n) == IF n < 10 THEN "0" \o ToString(n) ELSE ToString(n)

\* format!("{:.2}", x): x rounded to hundredths (a tie goes to the even digit).
Fixed2(x) ==
    IF x.k = "nan" THEN "NaN"
    ELSE IF x.k = "inf" THEN (IF Sign(x) < 0 THEN "-inf" ELSE "inf")
    ELSE LET a == Abs(x.v[1]) * 100
             q == a \div x.v[2]
             r == a % x.v[2]
             h == IF 2 * r > x.v[2] \/ (2 * r = x.v[2] /\ q % 2 = 1) THEN q + 1 ELSE q
         IN  (IF x.v[1] < 0 THEN "-" ELSE "")
                 \o ToString(h \div 100) \o "." \o TwoDigits(h % 100)

\* `x as u64` for a value below 2^31: truncation, NaN and negatives give 0.
AsU64(x) == IF x.k # "fin" \/ x.v[1] < 0 THEN 0 ELSE x.v[1] \div x.v[2]

format_duration(ms) ==
    IF FGe(ms, F(60000)) THEN Fixed2(FDiv(ms, F(60000))) \o "m"
    ELSE IF FGe(ms, F(1000)) THEN Fixed2(FDiv(ms, F(1000))) \o "s"
    ELSE IF FGe(ms, F(1)) THEN Fixed2(ms) \o "ms"
    ELSE Fixed2(FMul(ms, F(1000))) \o "us"

format_count(count) ==
    LET c == AsU64(count)
    IN  IF c >= 1000000 THEN Fixed2(Fin(c, 1000000)) \o "M"
        ELSE IF c >= 1000 THEN Fixed2(Fin(c, 1000)) \o "K"
        ELSE ToString(c)

format_rate(rate) == Fixed2(rate) \o "/s"

format_percent(rate) == Fixed2(FMul(rate, F(100))) \o "%"

format_value(value, key, contains_, metric_type) ==
    IF contains_ = "time" THEN format_duration(value)
    ELSE IF key = "rate"
         THEN (IF metric_type = "Counter" THEN format_rate(value)
               ELSE IF metric_type = "Rate" THEN format_percent(value)
               ELSE Fixed2(value))
    ELSE IF key \in {"count", "passes", "fails"} THEN format_count(value)
    ELSE Fixed2(value)

(***************************************************************************)
(* Report generation.  The text is the sequence of its non-blank lines; a  *)
(* table line is the sequence of its cells.  The check-mark and cross      *)
(* icons and the code quotes around a threshold are left out.             *)
(***************************************************************************)
\* Every string the model compares with String::cmp, in ascending byte order.
Lexicographic ==
    <<"a", "avg", "b", "count", "fails", "http_req_duration", "http_req_failed",
      "http_reqs",
      "http_reqs{status:200}", "iterations", "max", "med", "min", "p(90)",
      "p(95)", "p(99)", "passes", "rate", "value", "vus", "zzz">>

\* a.cmp(b) == Ordering::Less on strings
StrLess(a, b) ==
    (CHOOSE n \in DOMAIN Lexicographic : Lexicographic[n] = a)
        < (CHOOSE n \in DOMAIN Lexicographic : Lexicographic[n] = b)

\* Option of a HashMap lookup
Get(map, key) == IF key \in DOMAIN map THEN Some(map[key]) ELSE None
GetOr(map, key, default) == IF key \in DOMAIN map THEN map[key] ELSE default

RECURSIVE Flatten(_)
Flatten(ss) == IF ss = <<>> THEN <<>> ELSE Head(ss) \o Flatten(Tail(ss))

\* The orders in which a HashMap with key set S may be iterated.
Perms(S) ==
    {p \in [1..Cardinality(S) -> S] : \A m, n \in DOMAIN p : m # n => p[m] # p[n]}

\* One enumeration of the set S.
RECURSIVE SetToSeq(_)
SetToSeq(S) ==
    IF S = {} THEN <<>>
    ELSE LET x == CHOOSE y \in S : TRUE IN <<x>> \o SetToSeq(S \ {x})

Reverse(q) == [n \in DOMAIN q |-> q[Len(q) + 1 - n]]

\* An iteration order for the threshold map of each of the metrics `names`.
RECURSIVE ThresholdOrders(_, _)
ThresholdOrders(s, names) ==
    IF names = {} THEN {EmptyMap}
    ELSE LET n == CHOOSE x \in names : TRUE
         IN  {(n :> t) @@ rest :
                  t \in Perms(DOMAIN s.metrics[n].thresholds),
                  rest \in ThresholdOrders(s, names \ {n})}

\* Iteration orders for the statistic maps: one enumeration of each map, or
\* the reverse of each.  (A statistic map is only ever read into a vector
\* that is then sorted by a total order on its distinct keys.)
ValueOrders(s) ==
    {[n \in DOMAIN s.metrics |-> SetToSeq(DOMAIN s.metrics[n].values)],
     [n \in DOMAIN s.metrics |-> Reverse(SetToSeq(DOMAIN s.metrics[n].values))]}

\* The iteration orders of the HashMaps of a summary: every order of the
\* metric map and of each threshold map, and the two of ValueOrders.
IterOrders(s) ==
    {[metrics |-> mo, thresholds |-> to, values |-> vo] :
         mo \in Perms(DOMAIN s.metrics),
         to \in ThresholdOrders(s, DOMAIN s.metrics),
         vo \in ValueOrders(s)}

generate_summary_section(s) ==
    LET m == s.metrics
        stat(name, key) == IF name \in DOMAIN m THEN Get(m[name].values, key) ELSE None
        row(label, name, key, Fmt(_)) ==
            IF stat(name, key) = None THEN <<>>
            ELSE << <<label, Fmt(Unwrap(stat(name, key)))>> >>
        failed(v) ==
            format_count(v) \o " ("
                \o format_percent(GetOr(m["http_req_failed"].values, "rate", F(0))) \o ")"
        users(v) == ToString(AsU64(v))
    IN  << <<"## Summary">>, <<"Metric", "Value">>, <<"--------", "-------">> >>
        \o row("Total Requests", "http_reqs", "count", format_count)
        \o row("Request Rate", "http_reqs", "rate", format_rate)
        \o row("Failed Requests", "http_req_failed", "fails", failed)
        \o row("Avg Response Time", "http_req_duration", "avg", format_duration)
        \o row("P95 Response Time", "http_req_duration", "p(95)", format_duration)
        \o row("Iterations", "iterations", "count", format_count)
        \o row("Virtual Users", "vus", "value", users)
        \o << <<"---">> >>

\* Mutation of ThresholdLess: the ok flag is not compared.
ThresholdLessByName(a, b) == StrLess(a[1], b[1])

\* The comparator of thresholds.sort_by on (metric_name, threshold_expr, ok).
ThresholdLess(a, b) ==
    IF a[3] # b[3] THEN (~a[3] /\ b[3]) ELSE StrLess(a[1], b[1])

\* The vector `thresholds` before the sort: the nested iteration of the
\* metric map and of each threshold map.
CollectThresholds(s, it) ==
    Flatten([n \in DOMAIN it.metrics |->
                LET name == it.metrics[n]
                    exprs == it.thresholds[name]
                IN  [e \in DOMAIN exprs |->
                        <<name, exprs[e], s.metrics[name].thresholds[exprs[e]].ok>>]])

ThresholdRow(t) ==
    <<t[1], t[2], IF t[3] THEN "PASS" ELSE "**FAIL**">>

generate_thresholds_section(s, it) ==
    LET thresholds == CollectThresholds(s, it)
        sorted == StableSort(thresholds, ThresholdLess)
    IN  IF thresholds = <<>> THEN <<>>
        ELSE << <<"## Thresholds">>, <<"Metric", "Threshold", "Status">>,
                <<"--------", "-----------", "--------">> >>
             \o [n \in DOMAIN sorted |-> ThresholdRow(sorted[n])]
             \o << <<"---">> >>

priority_keys == <<"avg", "min", "med", "max", "p(90)", "p(95)", "p(99)">>

\* The comparator of sorted_values.sort_by on the statistic names.
ValueKeyLess(a, b) ==
    LET position(key) == {n \in DOMAIN priority_keys : priority_keys[n] = key}
    IN  IF position(a) # {} /\ position(b) # {}
        THEN (CHOOSE n \in position(a) : TRUE) < (CHOOSE n \in position(b) : TRUE)
        ELSE IF position(a) # {} THEN TRUE
        ELSE IF position(b) # {} THEN FALSE
        ELSE StrLess(a, b)

\* The rows "| key | value |" of one metric, in sorted_values order.
StatRows(metric, order) ==
    LET sorted_values == StableSort(order, ValueKeyLess)
    IN  [n \in DOMAIN sorted_values |->
            <<sorted_values[n],
              format_value(metric.values[sorted_values[n]], sorted_values[n],
                           metric.contains, metric.metric_type)>>]

\* name.starts_with("http_") and name.contains('{'), for the names of the model
StartsWithHttp(name) ==
    name \in {"http_req_duration", "http_req_failed", "http_reqs",
              "http_reqs{status:200}"}
ContainsBrace(name) == name \in {"http_reqs{status:200}"}

\* format!("{:?}", metric_type).to_lowercase()
Lowercase(metric_type) ==
    CASE metric_type = "Counter" -> "counter"
      [] metric_type = "Rate" -> "rate"
      [] metric_type = "Gauge" -> "gauge"
      [] metric_type = "Trend" -> "trend"

\* The names of `order` that satisfy Keep, sorted by name.
SortedNames(order, Keep(_)) == StableSort(SelectSeq(order, Keep), StrLess)

generate_http_metrics_section(s, it) ==
    LET keep(name) == StartsWithHttp(name) /\ ~ContainsBrace(name)
        sorted_metrics == SortedNames(it.metrics, keep)
    IN  IF sorted_metrics = <<>> THEN <<>>
        ELSE << <<"## HTTP Metrics">> >>
             \o Flatten([n \in DOMAIN sorted_metrics |->
                    LET name == sorted_metrics[n]
                    IN  << <<"### " \o name \o " ("
                                \o Lowercase(s.metrics[name].metric_type) \o ")">>,
                           <<"Stat", "Value">>, <<"------", "-------">> >>
                        \o StatRows(s.metrics[name], it.values[name])])
             \o << <<"---">> >>

\* Pre-order: a group's own checks, then those of its subgroups in order.
RECURSIVE collect_checks(_)
collect_checks(group) ==
    group.checks
        \o Flatten([n \in DOMAIN group.groups |-> collect_checks(group.groups[n])])

CheckRow(check) ==
    LET total == check.passes + check.fails
        rate == IF total > 0 THEN FMul(Fin(check.passes, total), F(100)) ELSE F(100)
    IN  <<(IF check.fails = 0 THEN "ok " ELSE "failed ") \o check.name,
          ToString(check.passes), ToString(check.fails), Fixed2(rate) \o "%">>

generate_checks_section(s) ==
    LET checks == IF s.root_group = None THEN <<>>
                  ELSE collect_checks(Unwrap(s.root_group))
    IN  IF checks = <<>> THEN <<>>
        ELSE << <<"## Checks">>, <<"Check", "Passes", "Fails", "Success Rate">>,
                <<"-------", "--------", "-------", "-------------">> >>
             \o [n \in DOMAIN checks |-> CheckRow(checks[n])]
             \o << <<"---">> >>

generate_all_metrics_section(s, it) ==
    LET m == s.metrics
        of_kind(k) ==
            SortedNames(it.metrics,
                        LAMBDA name : /\ ~(ContainsBrace(name) \/ StartsWithHttp(name))
                                      /\ m[name].metric_type = k)
        counters == of_kind("Counter")
        rates == of_kind("Rate")
        gauges == of_kind("Gauge")
        trends == of_kind("Trend")
        val(name, key) == GetOr(m[name].values, key, F(0))
    IN  << <<"## All Metrics">> >>
        \o (IF counters = <<>> THEN <<>>
            ELSE << <<"### Counters">>, <<"Metric", "Count", "Rate">>,
                    <<"--------", "-------", "------">> >>
                 \o [n \in DOMAIN counters |->
                        <<counters[n], format_count(val(counters[n], "count")),
                          format_rate(val(counters[n], "rate"))>>])
        \o (IF rates = <<>> THEN <<>>
            ELSE << <<"### Rates">>, <<"Metric", "Rate", "Passes", "Fails">>,
                    <<"--------", "------", "--------", "-------">> >>
                 \o [n \in DOMAIN rates |->
                        <<rates[n], format_percent(val(rates[n], "rate")),
                          format_count(val(rates[n], "passes")),
                          format_count(val(rates[n], "fails"))>>])
        \o (IF gauges = <<>> THEN <<>>
            ELSE << <<"### Gauges">>, <<"Metric", "Value", "Min", "Max">>,
                    <<"--------", "-------", "-----", "-----">> >>
                 \o [n \in DOMAIN gauges |->
                        <<gauges[n], Fixed2(val(gauges[n], "value")),
                          Fixed2(val(gauges[n], "min")),
                          Fixed2(val(gauges[n], "max"))>>])
        \o (IF trends = <<>> THEN <<>>
            ELSE << <<"### Trends">> >>
                 \o Flatten([n \in DOMAIN trends |->
                        << <<"**" \o trends[n] \o "**">>,
                           <<"Stat", "Value">>, <<"------", "-------">> >>
                        \o StatRows(m[trends[n]], it.values[trends[n]])]))

\* generate_report when the HashMaps iterate in the orders `it`.
\* Mutation of generate_report: the Checks section before HTTP Metrics.
generate_reportChecksFirst(s, it) ==
    << <<"# K6 Load Test Report">> >>
    \o (IF s.state = None THEN <<>>
        ELSE << <<"**Test Duration:** "
                    \o format_duration(Unwrap(s.state).test_run_duration_ms)>> >>)
    \o << <<"---">> >>
    \o generate_summary_section(s)
    \o generate_thresholds_section(s, it)
    \o generate_checks_section(s)
    \o generate_http_metrics_section(s, it)
    \o generate_all_metrics_section(s, it)

generate_report(s, it) ==
    << <<"# K6 Load Test Report">> >>
    \o (IF s.state = None THEN <<>>
        ELSE << <<"**Test Duration:** "
                    \o format_duration(Unwrap(s.state).test_run_duration_ms)>> >>)
    \o << <<"---">> >>
    \o generate_summary_section(s)
    \o generate_thresholds_section(s, it)
    \o generate_http_metrics_section(s, it)
    \o generate_checks_section(s)
    \o generate_all_metrics_section(s, it)

(***************************************************************************)
(* Structured-summary parser: serde_json::from_str::<K6Summary>            *)
(***************************************************************************)
JBool(b) == [k |-> "bool", v |-> b]

\* A field with #[serde(default)] that is not an Option: absent or of the type.
DefaultFieldOk(o, key, type) == key \notin DOMAIN o \/ o[key].k = type

ThresholdOk(j) == j.k = "obj" /\ "ok" \in DOMAIN j.v /\ j.v["ok"].k = "bool"

MetricOk(j) ==
    /\ j.k = "obj"
    /\ "type" \in DOMAIN j.v
    /\ j.v["type"].k = "str"
    /\ j.v["type"].v \in {"counter", "rate", "gauge", "trend"}
    /\ DefaultFieldOk(j.v, "contains", "str")
    /\ DefaultFieldOk(j.v, "values", "obj")
    /\ ("values" \in DOMAIN j.v =>
            \A key \in DOMAIN j.v["values"].v : j.v["values"].v[key].k = "num")
    /\ DefaultFieldOk(j.v, "thresholds", "obj")
    /\ ("thresholds" \in DOMAIN j.v =>
            \A key \in DOMAIN j.v["thresholds"].v : ThresholdOk(j.v["thresholds"].v[key]))

\* #[serde(rename_all = "lowercase")] enum MetricType
MetricTypeNamed(name) ==
    CASE name = "counter" -> "Counter"
      [] name = "rate" -> "Rate"
      [] name = "gauge" -> "Gauge"
      [] name = "trend" -> "Trend"

MetricFrom(j) ==
    [metric_type |-> MetricTypeNamed(j.v["type"].v),
     contains |-> IF "contains" \in DOMAIN j.v THEN j.v["contains"].v ELSE "",
     values |-> IF "values" \in DOMAIN j.v
                THEN [key \in DOMAIN j.v["values"].v |-> F(j.v["values"].v[key].v)]
                ELSE EmptyMap,
     thresholds |-> IF "thresholds" \in DOMAIN j.v
                    THEN [key \in DOMAIN j.v["thresholds"].v |->
                             [ok |-> j.v["thresholds"].v[key].v["ok"].v]]
                    ELSE EmptyMap]

CheckOk(j) ==
    /\ j.k = "obj"
    /\ {"name", "passes", "fails"} \subseteq DOMAIN j.v
    /\ j.v["name"].k = "str"
    /\ j.v["passes"].k = "num" /\ j.v["passes"].v >= 0
    /\ j.v["fails"].k = "num" /\ j.v["fails"].v >= 0

CheckFrom(j) ==
    [name |-> j.v["name"].v, passes |-> j.v["passes"].v, fails |-> j.v["fails"].v]

RECURSIVE GroupOk(_)
GroupOk(j) ==
    /\ j.k = "obj"
    /\ "name" \in DOMAIN j.v
    /\ j.v["name"].k = "str"
    /\ DefaultFieldOk(j.v, "groups", "arr")
    /\ ("groups" \in DOMAIN j.v =>
            \A n \in DOMAIN j.v["groups"].v : GroupOk(j.v["groups"].v[n]))
    /\ DefaultFieldOk(j.v, "checks", "arr")
    /\ ("checks" \in DOMAIN j.v =>
            \A n \in DOMAIN j.v["checks"].v : CheckOk(j.v["checks"].v[n]))

RECURSIVE GroupFrom(_)
GroupFrom(j) ==
    [name |-> j.v["name"].v,
     groups |-> IF "groups" \in DOMAIN j.v
                THEN [n \in DOMAIN j.v["groups"].v |-> GroupFrom(j.v["groups"].v[n])]
                ELSE <<>>,
     checks |-> IF "checks" \in DOMAIN j.v
                THEN [n \in DOMAIN j.v["checks"].v |-> CheckFrom(j.v["checks"].v[n])]
                ELSE <<>>]

StateOk(j) ==
    /\ j.k = "obj"
    /\ "testRunDurationMs" \in DOMAIN j.v
    /\ j.v["testRunDurationMs"].k = "num"

\* A field of type Option<struct>: absent or null is None.
Present(o, key) == key \in DOMAIN o /\ o[key].k # "null"

K6SummaryOk(j) ==
    /\ j.k = "obj"
    /\ DefaultFieldOk(j.v, "metrics", "obj")
    /\ ("metrics" \in DOMAIN j.v =>
            \A name \in DOMAIN j.v["metrics"].v : MetricOk(j.v["metrics"].v[name]))
    /\ (Present(j.v, "root_group") => GroupOk(j.v["root_group"]))
    /\ (Present(j.v, "state") => StateOk(j.v["state"]))

K6SummaryFrom(j) ==
    [metrics |-> IF "metrics" \in DOMAIN j.v
                 THEN [name \in DOMAIN j.v["metrics"].v |->
                          MetricFrom(j.v["metrics"].v[name])]
                 ELSE EmptyMap,
     root_group |-> IF Present(j.v, "root_group")
                    THEN Some(GroupFrom(j.v["root_group"])) ELSE None,
     state |-> IF Present(j.v, "state")
               THEN Some([test_run_duration_ms |->
                             F(j.v["state"].v["testRunDurationMs"].v)])
               ELSE None]

\* serde_json::from_str::<K6Summary>(&content): Some(summary) for Ok.
FromStrK6Summary(ls) ==
    LET value == FromStrValue(ls)
    IN  IF value # None /\ K6SummaryOk(Unwrap(value))
        THEN Some(K6SummaryFrom(Unwrap(value))) ELSE None

(***************************************************************************)
(* Format detection                                                        *)
(***************************************************************************)
\* Mutation of detect_format: the test for the key "metrics" is missing.
detect_formatAnyObject(ls) ==
    LET trimmed == Trim(ls)
    IN  IF StartsWithBrace(trimmed) /\ FromStrValue(trimmed) # None
        THEN "HandleSummary"
        ELSE "Jsonl"

detect_format(ls) ==
    LET trimmed == Trim(ls)
    IN  IF /\ StartsWithBrace(trimmed)
           /\ FromStrValue(trimmed) # None
           /\ HasKey(Unwrap(FromStrValue(trimmed)), "metrics")
        THEN "HandleSummary"
        ELSE "Jsonl"

(***************************************************************************)
(* Inputs of main and of generate_report                                   *)
(***************************************************************************)
Thresholds(oks) == JObj([expr \in DOMAIN oks |-> JObj("ok" :> JBool(oks[expr]))])

Numbers(values) == JObj([key \in DOMAIN values |-> JNum(values[key])])

\* A handleSummary document on one line.
SummaryDoc ==
    JObj([key \in {"metrics", "root_group", "state"} |->
        CASE key = "metrics" ->
               JObj([name \in {"a", "http_reqs"} |->
                   IF name = "a"
                   THEN JObj([f \in {"type", "contains", "values", "thresholds"} |->
                            CASE f = "type" -> JStr("trend")
                              [] f = "contains" -> JStr("time")
                              [] f = "values" -> Numbers(("avg" :> 5) @@ ("zzz" :> 1))
                              [] f = "thresholds" -> Thresholds("avg<1" :> FALSE)])
                   ELSE JObj([f \in {"type", "values", "thresholds"} |->
                            CASE f = "type" -> JStr("counter")
                              [] f = "values" -> Numbers(("count" :> 100) @@ ("rate" :> 10))
                              [] f = "thresholds" ->
                                     Thresholds(("count>1" :> TRUE) @@ ("rate>1" :> TRUE))])])
          [] key = "root_group" ->
               JObj([f \in {"name", "checks", "groups"} |->
                   CASE f = "name" -> JStr("")
                     [] f = "checks" ->
                            JArr(<<JObj([c \in {"name", "passes", "fails"} |->
                                       IF c = "name" THEN JStr("status is 200")
                                       ELSE IF c = "passes" THEN JNum(3) ELSE JNum(1)])>>)
                     [] f = "groups" -> JArr(<<JObj("name" :> JStr("g"))>>)])
          [] key = "state" -> JObj("testRunDurationMs" :> JNum(10000))])

\* A document with the key "metrics" whose metric lacks the required "type".
MalformedDoc == JObj("metrics" :> JObj("a" :> JObj("values" :> Numbers("avg" :> 5))))

\* The lines an input file of main is drawn from.
MainLines ==
    { Blank,
      Broken,
      Open("metrics"),
      Close,
      Json(SummaryDoc),
      Json(MalformedDoc),
      Json(JObj([key \in {"type", "metric"} |->
                    IF key = "type" THEN JStr("Point") ELSE JStr("a")])),
      MetricRecord("a", "counter", <<"count>1", "rate>0">>),
      MetricRecord("b", "gauge", <<"value<9", "value<9">>),
      PointRecord("a", 1, Stamp("01", "+"), JNull) }

\* The metrics a summary handed to generate_report is built from.
ReportMetrics ==
    { [metric_type |-> "Counter", contains |-> "",
       values |-> ("count" :> F(1500)) @@ ("rate" :> F(10)),
       thresholds |-> EmptyMap],
      [metric_type |-> "Trend", contains |-> "time",
       values |-> ("avg" :> Fin(3, 2)) @@ ("p(95)" :> F(1500)) @@ ("zzz" :> F(1)),
       thresholds |-> ("p(95)<2000" :> [ok |-> FALSE])],
      [metric_type |-> "Rate", contains |-> "",
       values |-> ("rate" :> Fin(1, 2)) @@ ("passes" :> F(1)) @@ ("fails" :> F(1)),
       thresholds |-> ("rate>0.1" :> [ok |-> TRUE]) @@ ("rate>0.2" :> [ok |-> TRUE])],
      [metric_type |-> "Gauge", contains |-> "",
       values |-> ("value" :> F(3)) @@ ("min" :> F(1)) @@ ("max" :> F(3)),
       thresholds |-> ("value<9" :> [ok |-> TRUE]) @@ ("value>5" :> [ok |-> FALSE])] }

ReportNames == {"a", "b", "http_reqs"}

ReportGroup ==
    [name |-> "",
     checks |-> <<[name |-> "status is 200", passes |-> 3, fails |-> 1]>>,
     groups |-> <<[name |-> "g", groups |-> <<>>,
                   checks |-> <<[name |-> "body ok", passes |-> 2, fails |-> 0]>>]>>]

ReportSummaries ==
    {[metrics |-> m, root_group |-> g, state |-> st] :
        m \in UNION {[names -> ReportMetrics] : names \in SUBSET ReportNames},
        g \in {None, Some(ReportGroup)},
        st \in {None, Some([test_run_duration_ms |-> F(1500)])}}

\* Summaries for the sections of the report: metrics with and without
\* thresholds under plain, http_ and sub-metric names, a group tree that
\* is absent, without checks, or with checks at both levels, and a State.
SectionMetrics ==
    { [metric_type |-> "Counter", contains |-> "",
       values |-> ("count" :> F(1500)) @@ ("rate" :> F(10)),
       thresholds |-> EmptyMap],
      [metric_type |-> "Trend", contains |-> "time",
       values |-> ("avg" :> Fin(3, 2)) @@ ("p(95)" :> F(1500)),
       thresholds |-> ("p(95)<2000" :> [ok |-> FALSE])] }

SectionNames == {"a", "http_reqs", "http_reqs{status:200}"}

EmptyGroup ==
    [name |-> "", checks |-> <<>>,
     groups |-> <<[name |-> "g", groups |-> <<>>, checks |-> <<>>]>>]

NestedCheckGroup ==
    [name |-> "", checks |-> <<>>,
     groups |-> <<[name |-> "g", groups |-> <<>>,
                   checks |-> <<[name |-> "body ok", passes |-> 2, fails |-> 0]>>]>>]

SectionSummaries ==
    {[metrics |-> m, root_group |-> g, state |-> st] :
        m \in UNION {[names -> SectionMetrics] : names \in SUBSET SectionNames},
        g \in {None, Some(EmptyGroup), Some(NestedCheckGroup), Some(ReportGroup)},
        st \in {None, Some([test_run_duration_ms |-> F(1500)])}}

MaxSamples == 5

\* The largest sample of the model: two of them overflow the finite range.
BigSample == 20000000

SampleValues == {F(-BigSample), F(0), F(1), F(BigSample)}

MetricTypes == {"Counter", "Rate", "Gauge", "Trend"}

\* The p arguments: those of calculate_stats and the ends of [0, 100].
Percents == {F(0), F(25), F(50), F(90), F(95), F(99), F(100)}

\* What the sort of calculate_stats establishes for percentile's argument.
IsSorted(s) == \A m, n \in DOMAIN s : m < n => ~FLt(s[n], s[m])

(***************************************************************************)
(* The state machine                                                       *)
(***************************************************************************)
Locals == [collectors |-> collectors, first_time |-> first_time, last_time |-> last_time]

parserVars == <<i, collectors, first_time, last_time>>
statsVars == <<samples, kind, stats, percent, result, reads>>

InitRest ==
    /\ i = 1
    /\ collectors = EmptyMap
    /\ first_time = None
    /\ last_time = None
    /\ format = None
    /\ markdown = None
    /\ output = None
    /\ error = None
    /\ steps = <<>>
    /\ reports = {}
    /\ stats = None
    /\ result = None
    /\ reads = {}

\* main: std::fs::read_to_string succeeds.
ReadInput ==
    /\ pc = "start"
    /\ pc' = "read"
    /\ steps' = Append(steps, "read")
    /\ UNCHANGED <<content, parserVars, format, summary, markdown, output, error,
                   reports, statsVars>>

\* main: std::fs::read_to_string fails and main returns the error.
ReadFails ==
    /\ pc = "start"
    /\ pc' = "failed"
    /\ error' = Some("Failed to read")
    /\ UNCHANGED <<content, parserVars, format, summary, markdown, output, steps,
                   reports, statsVars>>

\* main: the match on detect_format(&content).
DetectFormat ==
    /\ pc = "read"
    /\ format' = Some(detect_format(content))
    /\ pc' = IF detect_format(content) = "HandleSummary"
             THEN "parse_summary" ELSE "parse_jsonl"
    /\ steps' = Append(steps, "detect")
    /\ UNCHANGED <<content, parserVars, summary, markdown, output, error, reports,
                   statsVars>>

\* Mutation of ParseSummary: unwrap_or_default() instead of `?`.
ParseSummaryOrDefault ==
    /\ pc = "parse_summary"
    /\ pc' = "parsed"
    /\ summary' = IF FromStrK6Summary(content) = None
                  THEN Some([metrics |-> EmptyMap, root_group |-> None, state |-> None])
                  ELSE FromStrK6Summary(content)
    /\ steps' = Append(steps, "parse")
    /\ UNCHANGED <<content, parserVars, format, markdown, output, error, reports,
                   statsVars>>

\* main, the HandleSummary arm: serde_json::from_str(&content), with `?`.
ParseSummary ==
    /\ pc = "parse_summary"
    /\ IF FromStrK6Summary(content) = None
       THEN /\ pc' = "failed"
            /\ error' = Some("Failed to parse JSON")
            /\ UNCHANGED <<summary, steps>>
       ELSE /\ pc' = "parsed"
            /\ summary' = FromStrK6Summary(content)
            /\ steps' = Append(steps, "parse")
            /\ UNCHANGED error
    /\ UNCHANGED <<content, parserVars, format, markdown, output, reports, statsVars>>

\* Mutation of NextLine: `break` instead of `continue` on a line that is
\* blank or does not deserialize.
NextLineBreaking(line, index, len) ==
    IF line.t = "blank" \/ JsonlLine(line) = None THEN len + 1 ELSE index + 1

\* The for-loop advance after the body, also after a `continue`.
NextLine(line, index, len) == index + 1

\* parse_jsonl: one iteration of the for loop.
ParseJsonlLine ==
    /\ pc = "parse_jsonl"
    /\ i <= Len(content)
    /\ LET st == ProcessLine(Locals, content[i])
       IN  /\ collectors' = st.collectors
           /\ first_time' = st.first_time
           /\ last_time' = st.last_time
    /\ i' = NextLine(content[i], i, Len(content))
    /\ UNCHANGED <<pc, content, format, summary, markdown, output, error, steps,
                   reports, statsVars>>

\* parse_jsonl: the code after the loop, up to the return.
ParseJsonlReturn ==
    /\ pc = "parse_jsonl"
    /\ i > Len(content)
    /\ summary' = Some(JsonlSummary(Locals))
    /\ pc' = "parsed"
    /\ steps' = Append(steps, "parse")
    /\ UNCHANGED <<content, parserVars, format, markdown, output, error, reports,
                   statsVars>>

\* main: let markdown = generate_report(&summary).
RenderReport ==
    /\ pc = "parsed"
    /\ \E it \in IterOrders(Unwrap(summary)) :
           markdown' = Some(generate_report(Unwrap(summary), it))
    /\ pc' = "rendered"
    /\ steps' = Append(steps, "render")
    /\ UNCHANGED <<content, parserVars, format, summary, output, error, reports,
                   statsVars>>

\* main: std::fs::write succeeds.
WriteOutput ==
    /\ pc = "rendered"
    /\ output' = markdown
    /\ pc' = "done"
    /\ steps' = Append(steps, "write")
    /\ UNCHANGED <<content, parserVars, format, summary, markdown, error, reports,
                   statsVars>>

\* main: std::fs::write fails and main returns the error.
WriteFails ==
    /\ pc = "rendered"
    /\ pc' = "failed"
    /\ error' = Some("Failed to write")
    /\ steps' = Append(steps, "write")
    /\ UNCHANGED <<content, parserVars, format, summary, markdown, output, reports,
                   statsVars>>

\* A call of generate_report on the summary, as long as the calls so far agree.
GenerateReport ==
    /\ pc = "generate_report"
    /\ \A r \in reports : reports = {r}
    /\ \E it \in IterOrders(Unwrap(summary)) :
           /\ markdown' = Some(generate_report(Unwrap(summary), it))
           /\ reports' = reports \cup {generate_report(Unwrap(summary), it)}
    /\ UNCHANGED <<pc, content, parserVars, format, summary, output, error, steps,
                   statsVars>>

\* A call of calculate_stats.
CalculateStats ==
    /\ pc = "calculate_stats"
    /\ stats' = Some(calculate_stats(samples, kind))
    /\ pc' = "returned"
    /\ UNCHANGED <<content, parserVars, format, summary, markdown, output, error,
                   steps, reports, samples, kind, percent, result, reads>>

\* A call of percentile.
Percentile ==
    /\ pc = "percentile"
    /\ result' = Some(percentile(samples, percent))
    /\ reads' = percentileReads(samples, percent)
    /\ pc' = "returned"
    /\ UNCHANGED <<content, parserVars, format, summary, markdown, output, error,
                   steps, reports, samples, kind, stats, percent>>

\* One run of main on an input file.
Init ==
    /\ pc = "start"
    /\ content \in Seqs(MainLines, MaxLines)
    /\ summary = None
    /\ samples = <<>>
    /\ kind = "Trend"
    /\ percent = F(50)
    /\ InitRest

Next ==
    \/ ReadInput
    \/ ReadFails
    \/ DetectFormat
    \/ ParseSummary
    \/ ParseJsonlLine
    \/ ParseJsonlReturn
    \/ RenderReport
    \/ WriteOutput
    \/ WriteFails

Spec == Init /\ [][Next]_vars

\* parse_jsonl called on an event log.
InitJsonl ==
    /\ pc = "parse_jsonl"
    /\ content \in Seqs(JsonlLines, MaxLines)
    /\ summary = None
    /\ samples = <<>>
    /\ kind = "Trend"
    /\ percent = F(50)
    /\ InitRest

NextJsonl == ParseJsonlLine \/ ParseJsonlReturn

SpecJsonl == InitJsonl /\ [][NextJsonl]_vars

\* generate_report called, any number of times, on one summary.
InitReport ==
    /\ pc = "generate_report"
    /\ content = <<>>
    /\ summary \in {Some(s) : s \in ReportSummaries}
    /\ samples = <<>>
    /\ kind = "Trend"
    /\ percent = F(50)
    /\ InitRest

NextReport == GenerateReport

SpecReport == InitReport /\ [][NextReport]_vars

\* generate_report called on summaries with every combination of sections.
InitSections ==
    /\ pc = "generate_report"
    /\ content = <<>>
    /\ summary \in {Some(s) : s \in SectionSummaries}
    /\ samples = <<>>
    /\ kind = "Trend"
    /\ percent = F(50)
    /\ InitRest

SpecSections == InitSections /\ [][NextReport]_vars

\* calculate_stats called on a sample list.
InitStats ==
    /\ content = <<>>
    /\ summary = None
    /\ samples \in Seqs(SampleValues, MaxSamples)
    /\ \/ /\ pc = "calculate_stats"
          /\ kind \in MetricTypes
          /\ percent = F(50)
       \/ /\ pc = "percentile"
          /\ IsSorted(samples)
          /\ kind = "Trend"
          /\ percent \in Percents
    /\ InitRest

NextStats == CalculateStats \/ Percentile

SpecStats == InitStats /\ [][NextStats]_vars

(***************************************************************************)
(* Properties                                                              *)
(***************************************************************************)
\* A line parse_jsonl deserializes as an event record.
IsEventRecord(line) == line.t # "blank" /\ JsonlLine(line) # None

\* C1: parse_jsonl never fails, and its summary is the summary of the same
\* lines with every blank line and every line that does not deserialize as
\* an event record removed: a bad line aborts nothing, the lines before and
\* after it are all processed.
C1_BadLinesAreSkipped ==
    /\ pc \in {"parse_jsonl", "parsed"}
    /\ pc = "parse_jsonl" => i \in 1..(Len(content) + 1)
    /\ pc = "parsed" =>
           summary = Some(parse_jsonl(SelectSeq(content, IsEventRecord)))

\* A parse that met a bad line between two event records and kept both.
C1_Witness ==
    /\ pc = "parsed"
    /\ Len(content) = 3
    /\ content[2] = Garbage
    /\ IsEventRecord(content[1])
    /\ IsEventRecord(content[3])
    /\ DOMAIN Unwrap(summary).metrics = {"a", "b"}

\* The next line of the loop is a "Metric" record for a registered name.
MetricRecordForKnownName ==
    /\ pc = "parse_jsonl"
    /\ i <= Len(content)
    /\ IsEventRecord(content[i])
    /\ Unwrap(JsonlLine(content[i])).line_type = "Metric"
    /\ Unwrap(JsonlLine(content[i])).metric \in DOMAIN collectors

\* C4: registration is first-seen-wins.  A "Metric" record for a name that
\* already has an accumulator (from an earlier "Metric" record or from an
\* accepted Point) leaves every accumulator as it is: kind, contains,
\* thresholds and samples of that name and of all others.
C4_FirstSeenWins ==
    [][MetricRecordForKnownName => collectors' = collectors]_vars

\* A second "Metric" record for "a", declaring another kind and other
\* thresholds, was processed after a first one and an accepted Point.
C4_Witness ==
    /\ pc = "parse_jsonl"
    /\ i = 4
    /\ content[3] = MetricRecord("a", "rate", <<>>)
    /\ "a" \in DOMAIN collectors
    /\ collectors["a"].metric_type = "Counter"
    /\ collectors["a"].thresholds = <<"count>1", "rate>0">>
    /\ collectors["a"].values = <<F(1)>>

Range(q) == {q[n] : n \in DOMAIN q}

NonBlank(ls) == SelectSeq(ls, LAMBDA l : l.t # "blank")

\* The number of steps of main between the current position and the end of
\* the write step, on the event-log path.
StepsToWrite ==
    CASE pc = "parse_jsonl" -> (Len(content) + 1 - i) + 3
      [] pc = "parsed" -> 2
      [] pc = "rendered" -> 1
      [] OTHER -> 0

\* What holds in every state of a run of main: the write step comes only
\* after read, detect, parse and render, in that order, and what is written
\* is the whole report of the parsed summary; a failed read or a failed
\* structured-summary parse ends the run without the write step; on the
\* event-log path the run is over only when the write step was performed.
WriteComesLast ==
    /\ "write" \in Range(steps) =>
           steps = <<"read", "detect", "parse", "render", "write">>
    /\ output # None =>
           /\ pc = "done"
           /\ output = markdown
           /\ \E it \in IterOrders(Unwrap(summary)) :
                  Unwrap(output) = generate_report(Unwrap(summary), it)
    /\ error = Some("Failed to read") =>
           pc = "failed" /\ steps = <<>> /\ output = None
    /\ (format = Some("HandleSummary") /\ FromStrK6Summary(content) = None) =>
           "write" \notin Range(steps) /\ output = None /\ markdown = None
    /\ error = Some("Failed to parse JSON") =>
           pc = "failed" /\ format = Some("HandleSummary")
    /\ format = Some("Jsonl") =>
           /\ pc \in {"parse_jsonl", "parsed", "rendered", "done", "failed"}
           /\ StepsToWrite = 0 <=> "write" \in Range(steps)
           /\ error \in {None, Some("Failed to write")}

\* Every step of a run on the event-log path brings it one step closer to
\* the end of the write step.
EventLogRunAdvances ==
    format = Some("Jsonl") => StepsToWrite' = StepsToWrite - 1

\* C2: the run of main is all-or-nothing.  The output is written only after
\* the input was read, the format detected, the summary parsed and the
\* whole report rendered, in that order; a failed read or a failed
\* structured-summary parse ends the run without the write step; and on the
\* event-log path every step leads towards the write step, which alone ends
\* the run.
C2_AllOrNothing ==
    /\ []WriteComesLast
    /\ [][EventLogRunAdvances]_vars

\* A run on a non-empty event log that wrote its report.
C2_Witness ==
    /\ pc = "done"
    /\ format = Some("Jsonl")
    /\ NonBlank(content) # <<>>
    /\ steps = <<"read", "detect", "parse", "render", "write">>
    /\ output = markdown
    /\ output # None

\* The text is one JSON object with the top-level key "metrics", with
\* nothing but whitespace around it.
IsSummaryText(ls) ==
    LET nb == NonBlank(ls)
    IN  \/ /\ Len(nb) = 1
           /\ nb[1].t = "json"
           /\ nb[1].v.k = "obj"
           /\ "metrics" \in DOMAIN nb[1].v.v
        \/ /\ Len(nb) = 2
           /\ nb[1] = Open("metrics")
           /\ nb[2] = Close

\* The text is two or more "Metric" / "Point" records, one per line.
IsRecordSequence(ls) ==
    LET nb == NonBlank(ls)
    IN  /\ Len(nb) >= 2
        /\ \A n \in DOMAIN nb :
               /\ IsEventRecord(nb[n])
               /\ Unwrap(JsonlLine(nb[n])).line_type \in {"Metric", "Point"}

\* C3: detect_format always returns; it returns HandleSummary exactly when
\* the trimmed text starts with '{', is a single JSON value and has the
\* top-level key "metrics", and EventLog (Jsonl) otherwise: in particular
\* for a leading '{' that does not parse and for every multi-line sequence
\* of Metric / Point records.
C3_DetectFormat ==
    /\ pc = "read" => ENABLED DetectFormat
    /\ format # None =>
           /\ format \in {Some("HandleSummary"), Some("Jsonl")}
           /\ format = Some("HandleSummary") <=> IsSummaryText(content)
           /\ (NonBlank(content) # <<>> /\ NonBlank(content)[1] = Broken) =>
                  format = Some("Jsonl")
           /\ IsRecordSequence(content) => format = Some("Jsonl")

\* A summary printed over two lines behind a blank line was detected.
C3_Witness ==
    /\ format = Some("HandleSummary")
    /\ content = <<Blank, Open("metrics"), Close>>

\* The timestamps of the Point records of ls that carry a numeric value.
ValuedPointTimes(ls) ==
    {Unwrap(Unwrap(JsonlLine(ls[n])).data.time) :
        n \in {m \in DOMAIN ls :
                  /\ IsEventRecord(ls[m])
                  /\ Unwrap(JsonlLine(ls[m])).line_type = "Point"
                  /\ Unwrap(JsonlLine(ls[m])).data.value # None
                  /\ Unwrap(JsonlLine(ls[m])).data.time # None}}

\* C5: the duration is the absolute difference between the earliest and
\* the latest time of day among the timestamps of all Point records with a
\* numeric value, in whatever order the points appear.  (Stated for logs
\* whose timestamps all parse to a finite time of day.)
C5_DurationIsTimeRange ==
    pc = "parsed" =>
        LET times == {parse_time(t) : t \in ValuedPointTimes(content)}
            earliest == CHOOSE x \in times : \A y \in times : ~FLt(Unwrap(y), Unwrap(x))
            latest == CHOOSE x \in times : \A y \in times : ~FLt(Unwrap(x), Unwrap(y))
        IN  (times # {} /\ \A x \in times : x # None /\ IsFin(Unwrap(x))) =>
                Unwrap(summary).state =
                    Some([test_run_duration_ms |->
                             FAbs(FSub(Unwrap(latest), Unwrap(earliest)))])

\* A timestamp as C6 describes it: exactly one 'T', a time part of exactly
\* three ':'-separated components, each of them a decimal numeral.
WellFormedStamp(ts) ==
    /\ Len(Split(ts, "T")) = 2
    /\ LET comps == Split(Split(Split(Split(ts, "T")[2], "+")[1], "-")[1], ":")
       IN  /\ Len(comps) = 3
           /\ \A n \in DOMAIN comps :
                  /\ Len(comps[n]) = 1
                  /\ comps[n][1] \in {"00", "01", "02", "03", "10"}

\* The line with its timestamp, if it has one, replaced by ts.
WithTime(line, ts) ==
    IF /\ line.t = "json"
       /\ line.v.k = "obj"
       /\ "data" \in DOMAIN line.v.v
       /\ line.v.v["data"].k = "obj"
       /\ "time" \in DOMAIN line.v.v["data"].v
       /\ line.v.v["data"].v["time"].k = "str"
    THEN [line EXCEPT !.v.v["data"].v["time"] = JStr(ts)]
    ELSE line

\* C6: without a tracked timestamp, or with a malformed one, the summary
\* has no State and its metrics are those of the same log with well-formed
\* timestamps; otherwise it has a State with a non-negative duration.
C6_StateIffWellFormed ==
    pc = "parsed" =>
        IF \/ first_time = None
           \/ last_time = None
           \/ ~WellFormedStamp(Unwrap(first_time))
           \/ ~WellFormedStamp(Unwrap(last_time))
        THEN /\ Unwrap(summary).state = None
             /\ Unwrap(summary).metrics =
                    parse_jsonl([n \in DOMAIN content |->
                                    WithTime(content[n], Stamp("00", "+"))]).metrics
        ELSE /\ Unwrap(summary).state # None
             /\ FGe(Unwrap(Unwrap(summary).state).test_run_duration_ms, F(0))

\* C7: generate_report returns the same text for a summary whatever the
\* iteration order of its maps.
C7_Deterministic == Cardinality(reports) <= 1

\* The rows of the Thresholds table of a report.
ThresholdsTable(md) ==
    IF <<"## Thresholds">> \notin Range(md) THEN <<>>
    ELSE LET h == CHOOSE n \in DOMAIN md : md[n] = <<"## Thresholds">>
             e == CHOOSE n \in DOMAIN md :
                      /\ n > h
                      /\ md[n] = <<"---">>
                      /\ \A m \in (h + 1)..(n - 1) : md[m] # <<"---">>
         IN  SubSeq(md, h + 3, e - 1)

\* The (metric, threshold expression) pairs of a summary.
ThresholdPairs(s) ==
    UNION {{<<name, expr>> : expr \in DOMAIN s.metrics[name].thresholds} :
              name \in DOMAIN s.metrics}

\* C8: in the Thresholds table every failing row precedes every passing
\* row, within the failing and within the passing rows the metric names
\* ascend, and there is exactly one row per (metric, expression) pair.
C8_ThresholdsTable ==
    markdown # None =>
        LET rows == ThresholdsTable(Unwrap(markdown))
            s == Unwrap(summary)
        IN  /\ \A p, q \in DOMAIN rows :
                   p < q => ~(rows[p][3] = "PASS" /\ rows[q][3] = "**FAIL**")
            /\ \A p, q \in DOMAIN rows :
                   (p < q /\ rows[p][3] = rows[q][3]) => ~StrLess(rows[q][1], rows[p][1])
            /\ {<<rows[n][1], rows[n][2]>> : n \in DOMAIN rows} = ThresholdPairs(s)
            /\ Len(rows) = Cardinality(ThresholdPairs(s))
            /\ \A n \in DOMAIN rows :
                   rows[n][3] = "PASS" <=> s.metrics[rows[n][1]].thresholds[rows[n][2]].ok

\* A table with failing and passing rows of three metrics.
C8_Witness ==
    /\ markdown # None
    /\ LET rows == ThresholdsTable(Unwrap(markdown))
       IN  /\ Len(rows) >= 4
           /\ {rows[n][1] : n \in DOMAIN rows} = {"a", "b", "http_reqs"}
           /\ {rows[n][3] : n \in DOMAIN rows} = {"PASS", "**FAIL**"}

\* The statistic names of a kind.
KindKeys(metric_type) ==
    CASE metric_type = "Counter" -> {"count", "rate"}
      [] metric_type = "Rate" -> {"rate", "passes", "fails"}
      [] metric_type = "Gauge" -> {"value", "min", "max"}
      [] metric_type = "Trend" -> {"avg", "min", "max", "med", "p(90)", "p(95)", "p(99)"}

\* C9: the statistic names are determined by the kind: none for an empty
\* sample list, exactly the kind's set for a non-empty one; so every metric
\* of an event-log summary has no statistics or exactly its kind's set.
C9_StatNamesByKind ==
    pc = "parsed" =>
        /\ DOMAIN Unwrap(summary).metrics = DOMAIN collectors
        /\ \A name \in DOMAIN collectors :
               DOMAIN Unwrap(summary).metrics[name].values =
                   IF collectors[name].values = <<>> THEN {}
                   ELSE KindKeys(collectors[name].metric_type)

\* A summary with the statistics of a Counter with samples and those of a
\* Trend without.
C9_Witness ==
    /\ pc = "parsed"
    /\ DOMAIN collectors = {"a", "b"}
    /\ collectors["a"].metric_type = "Counter"
    /\ DOMAIN Unwrap(summary).metrics["a"].values = {"count", "rate"}
    /\ collectors["b"].metric_type = "Trend"
    /\ Unwrap(summary).metrics["b"].values = EmptyMap

\* The lines of ls that are "Metric" records for `name`.
MetricRecordsOf(ls, name) ==
    {n \in DOMAIN ls : /\ IsEventRecord(ls[n])
                       /\ Unwrap(JsonlLine(ls[n])).line_type = "Metric"
                       /\ Unwrap(JsonlLine(ls[n])).metric = name}

\* The lines of ls that are Points for `name` whose value is appended.
AcceptedPointsOf(ls, name) ==
    {n \in DOMAIN ls : /\ IsEventRecord(ls[n])
                       /\ Unwrap(JsonlLine(ls[n])).line_type = "Point"
                       /\ Unwrap(JsonlLine(ls[n])).metric = name
                       /\ Unwrap(JsonlLine(ls[n])).data.value # None
                       /\ ~SkipPoint(Unwrap(JsonlLine(ls[n])).data.tags)}

\* The expressions the first "Metric" record of `name` declares.
FirstDeclared(ls, name) ==
    LET first == CHOOSE n \in MetricRecordsOf(ls, name) :
                     \A m \in MetricRecordsOf(ls, name) : n <= m
    IN  Range(Unwrap(JsonlLine(ls[first])).data.thresholds)

\* What C10 says of every event-log summary apart from the threshold
\* expressions: no group tree, every threshold ok, and a report without a
\* Checks section and without a FAIL row.
NoGroupAllOk ==
    /\ Unwrap(summary).root_group = None
    /\ \A name \in DOMAIN Unwrap(summary).metrics :
           \A expr \in DOMAIN Unwrap(summary).metrics[name].thresholds :
               Unwrap(summary).metrics[name].thresholds[expr].ok
    /\ markdown # None =>
           /\ <<"## Checks">> \notin Range(Unwrap(markdown))
           /\ \A n \in DOMAIN Unwrap(markdown) :
                  "**FAIL**" \notin Range(Unwrap(markdown)[n])

\* C10 as stated: the thresholds of a metric are the distinct expressions
\* of its first "Metric" record.
C10_ThresholdsOfFirstRecord ==
    (format = Some("Jsonl") /\ summary # None) =>
        /\ NoGroupAllOk
        /\ \A name \in DOMAIN Unwrap(summary).metrics :
               MetricRecordsOf(content, name) # {} =>
                   DOMAIN Unwrap(summary).metrics[name].thresholds =
                       FirstDeclared(content, name)

\* C10, amended: the thresholds of a metric are the distinct expressions of
\* its first "Metric" record when no accepted Point of that name precedes
\* the record; a metric registered by a Point has no thresholds.
C10_ThresholdsOfRegisteringRecord ==
    (format = Some("Jsonl") /\ summary # None) =>
        /\ NoGroupAllOk
        /\ \A name \in DOMAIN Unwrap(summary).metrics :
               DOMAIN Unwrap(summary).metrics[name].thresholds =
                   IF /\ MetricRecordsOf(content, name) # {}
                      /\ \A p \in AcceptedPointsOf(content, name) :
                             \E m \in MetricRecordsOf(content, name) : m < p
                   THEN FirstDeclared(content, name)
                   ELSE {}

\* A rendered event log in which "a" was registered by a Point before its
\* "Metric" record and "b" declared the same expression twice.
C10_Witness ==
    /\ format = Some("Jsonl")
    /\ markdown # None
    /\ content = <<PointRecord("a", 1, Stamp("01", "+"), JNull),
                   MetricRecord("a", "counter", <<"count>1", "rate>0">>),
                   MetricRecord("b", "gauge", <<"value<9", "value<9">>)>>
    /\ Unwrap(summary).metrics["a"].thresholds = EmptyMap
    /\ DOMAIN Unwrap(summary).metrics["b"].thresholds = {"value<9"}
    /\ <<"b", "value<9", "PASS">> \in Range(Unwrap(markdown))

\* The number a sample stands for: the samples of the model are whole.
Whole(x) == x.v[1]

\* The exact sum of the first n samples.
RECURSIVE PrefixSum(_, _)
PrefixSum(s, n) == IF n = 0 THEN 0 ELSE PrefixSum(s, n - 1) + Whole(s[n])

\* C11: for a Rate metric with a non-empty sample list, passes is the
\* number of samples strictly greater than 0, fails is the total minus
\* passes, so passes + fails is the number of samples, and rate is
\* passes / total, so 0 <= rate <= 1.
C11_RateStats ==
    (pc = "returned" /\ kind = "Rate" /\ samples # <<>>) =>
        LET st == Unwrap(stats)
            total == Len(samples)
            positive == Cardinality({n \in DOMAIN samples : Whole(samples[n]) > 0})
        IN  /\ st["passes"] = F(positive)
            /\ st["fails"] = F(total - positive)
            /\ FAdd(st["passes"], st["fails"]) = F(total)
            /\ st["rate"] = Fin(positive, total)
            /\ IsFin(st["rate"])
            /\ st["rate"].v[1] >= 0
            /\ st["rate"].v[1] <= st["rate"].v[2]

\* The samples [1, 1, 1, 0, 0] gave passes = 3, fails = 2 and rate = 0.6.
C11_Witness ==
    /\ pc = "returned"
    /\ kind = "Rate"
    /\ samples = <<F(1), F(1), F(1), F(0), F(0)>>
    /\ Unwrap(stats)["passes"] = F(3)
    /\ Unwrap(stats)["fails"] = F(2)
    /\ Unwrap(stats)["rate"] = Fin(6, 10)

\* C12: for a Counter metric with a non-empty sample list, count is the
\* number of samples and rate is count / max(sum / 1000, 1), where the sum
\* is the running f64 sum of the samples (an infinity once a partial sum
\* has left the finite range); the denominator is never below 1, so rate
\* is finite and 0 <= rate <= count.
C12_CounterStats ==
    (pc = "returned" /\ kind = "Counter" /\ samples # <<>>) =>
        LET st == Unwrap(stats)
            total == Len(samples)
            beyond == {n \in DOMAIN samples : Abs(PrefixSum(samples, n)) > F64Max}
            first == CHOOSE n \in beyond : \A m \in beyond : n <= m
            sum == PrefixSum(samples, total)
        IN  /\ st["count"] = F(total)
            /\ st["rate"] =
                   IF beyond # {}
                   THEN (IF PrefixSum(samples, first) > 0 THEN F(0) ELSE F(total))
                   ELSE IF sum >= 1000 THEN Fin(total * 1000, sum)
                   ELSE F(total)
            /\ IsFin(st["rate"])
            /\ ~FLt(st["rate"], F(0))
            /\ ~FLt(st["count"], st["rate"])

\* Five samples of 1.0 gave count = 5 and rate = 5.
C12_Witness ==
    /\ pc = "returned"
    /\ kind = "Counter"
    /\ samples = <<F(1), F(1), F(1), F(1), F(1)>>
    /\ Unwrap(stats)["count"] = F(5)
    /\ Unwrap(stats)["rate"] = F(5)

\* C13: percentile on an ascending-sorted sequence returns 0 for the empty
\* sequence and the single element of a one-element sequence at any p; for
\* a non-empty sequence percentile(seq, 0) is the minimum, percentile(seq,
\* 100) is the maximum, for every p in [0, 100] the result lies between
\* the minimum and the maximum, and no index outside 0..n-1 is read.
C13_PercentileWithinRange ==
    (pc = "returned" /\ result # None) =>
        LET n == Len(samples)
            r == Unwrap(result)
        IN  /\ n = 0 => r = F(0) /\ reads = {}
            /\ n = 1 => r = samples[1]
            /\ n >= 1 =>
                   /\ percent = F(0) => r = samples[1]
                   /\ percent = F(100) => r = samples[n]
                   /\ FGe(r, samples[1])
                   /\ FGe(samples[n], r)
                   /\ reads # {}
            /\ reads \subseteq 0..(n - 1)

\* The record the loop of parse_jsonl is about to process, if it is a Point.
AtPoint ==
    /\ pc = "parse_jsonl"
    /\ i <= Len(content)
    /\ IsEventRecord(content[i])
    /\ Unwrap(JsonlLine(content[i])).line_type = "Point"

ThePoint == Unwrap(JsonlLine(content[i]))

\* The point's tag mapping has a key other than "group".
HasOtherTag(tags) ==
    tags # None /\ \E key \in DOMAIN Unwrap(tags) : key # "group"

\* The accumulators after `value` was appended to the samples of `name`,
\* with a default Trend accumulator created if there was none.
WithSample(cs, name, value) ==
    [n \in DOMAIN cs \cup {name} |->
        IF n # name THEN cs[n]
        ELSE IF name \in DOMAIN cs
             THEN [cs[name] EXCEPT !.values = Append(@, value)]
             ELSE [metric_type |-> "Trend", contains |-> "",
                   values |-> <<value>>, thresholds |-> <<>>]]

\* C14: a Point with a numeric value whose tags have a key other than
\* "group" is skipped: no sample is appended and no accumulator created; a
\* Point with a numeric value whose tags are absent, null, empty or only
\* "group" appends exactly its value to the end of its own metric's samples
\* (creating a default Trend accumulator if none exists) and changes no
\* other accumulator; a Point without a numeric value changes nothing.
C14_PointArm ==
    [][AtPoint =>
          IF ThePoint.data.value = None
          THEN /\ collectors' = collectors
               /\ first_time' = first_time
               /\ last_time' = last_time
          ELSE IF HasOtherTag(ThePoint.data.tags)
          THEN collectors' = collectors
          ELSE collectors' = WithSample(collectors, ThePoint.metric,
                                        F(Unwrap(ThePoint.data.value)))]_vars

\* An untagged point, a point tagged with a status and a point tagged with
\* a group only were processed: the first and the third were appended.
C14_Witness ==
    /\ pc = "parse_jsonl"
    /\ i = 4
    /\ content = <<PointRecord("a", 1, Stamp("01", "+"), JNull),
                   PointRecord("a", 2, Stamp("02", "-"), JObj("status" :> JStr("200"))),
                   PointRecord("a", 3, Stamp("03", "+"), JObj("group" :> JStr("")))>>
    /\ DOMAIN collectors = {"a"}
    /\ collectors["a"].values = <<F(1), F(3)>>
    /\ collectors["a"].metric_type = "Trend"

\* Every step on a Point with a numeric value and a time string tracks the
\* time, skipped or not; a step on a Point without a numeric value does not.
TimeTrackedBeforeSkip ==
    AtPoint =>
        IF ThePoint.data.value = None
        THEN first_time' = first_time /\ last_time' = last_time
        ELSE IF ThePoint.data.time = None
        THEN first_time' = first_time /\ last_time' = last_time
        ELSE /\ last_time' = ThePoint.data.time
             /\ first_time' = IF first_time = None THEN ThePoint.data.time
                              ELSE first_time

\* The lines of ls that are Points with a numeric value, a time string and
\* a tag other than "group".
TaggedTimedPoints(ls) ==
    {n \in DOMAIN ls : /\ IsEventRecord(ls[n])
                       /\ Unwrap(JsonlLine(ls[n])).line_type = "Point"
                       /\ Unwrap(JsonlLine(ls[n])).data.value # None
                       /\ Unwrap(JsonlLine(ls[n])).data.time # None
                       /\ HasOtherTag(Unwrap(JsonlLine(ls[n])).data.tags)}

\* The line without its tags, if it has any.
Untagged(line) ==
    IF /\ line.t = "json"
       /\ line.v.k = "obj"
       /\ "data" \in DOMAIN line.v.v
       /\ line.v.v["data"].k = "obj"
       /\ "tags" \in DOMAIN line.v.v["data"].v
    THEN [line EXCEPT !.v.v["data"].v["tags"] = JNull]
    ELSE line

\* C15: time tracking happens before the tag-skip check.  A Point with a
\* numeric value and a time string updates the tracked time range even
\* when it is then skipped, so a log whose timestamped points are tagged
\* sub-metric points yields the State it would yield without the tags: a
\* State whenever its timestamps parse; a Point without a numeric value
\* never updates the tracked time range.
C15_TimeTrackedBeforeSkip ==
    /\ [][TimeTrackedBeforeSkip]_vars
    /\ [](pc = "parsed" =>
             /\ Unwrap(summary).state =
                    parse_jsonl([n \in DOMAIN content |-> Untagged(content[n])]).state
             /\ (/\ TaggedTimedPoints(content) # {}
                 /\ \A t \in ValuedPointTimes(content) : parse_time(t) # None)
                    => Unwrap(summary).state # None)

\* A log whose only point was skipped as a sub-metric yielded a State and
\* no sample.
C15_Witness ==
    /\ pc = "parsed"
    /\ content = <<MetricRecord("a", "counter", <<"count>1", "rate>0">>),
                   PointRecord("a", 2, Stamp("02", "-"), JObj("status" :> JStr("200")))>>
    /\ collectors["a"].values = <<>>
    /\ first_time = Some(Stamp("02", "-"))
    /\ Unwrap(summary).state = Some([test_run_duration_ms |-> F(0)])

\* The headings of the sections of a report, in the order they appear.
Headings(md) ==
    SelectSeq(md, LAMBDA row :
        row \in {<<"# K6 Load Test Report">>, <<"## Summary">>, <<"## Thresholds">>,
                 <<"## HTTP Metrics">>, <<"## Checks">>, <<"## All Metrics">>})

\* The number of checks in a group tree.
RECURSIVE CountChecks(_)
CountChecks(group) ==
    Len(group.checks)
        + (IF group.groups = <<>> THEN 0
           ELSE CountChecks(group.groups[1])
                    + CountChecks([group EXCEPT !.checks = <<>>,
                                                !.groups = Tail(@)]))

\* C16: the sections of the report appear in the order title, duration
\* line, Summary, Thresholds, HTTP Metrics, Checks, All Metrics.  Title,
\* Summary and All Metrics are always present; the duration line exactly
\* when the summary has a State, Thresholds exactly when some metric has a
\* threshold, HTTP Metrics exactly when some metric name starts with
\* "http_" and has no '{', Checks exactly when the group tree has a check.
C16_SectionOrder ==
    markdown # None =>
        LET md == Unwrap(markdown)
            s == Unwrap(summary)
            hasThreshold == \E name \in DOMAIN s.metrics :
                                DOMAIN s.metrics[name].thresholds # {}
            hasHttp == \E name \in DOMAIN s.metrics :
                           name \in {"http_reqs", "http_req_duration", "http_req_failed"}
            hasCheck == s.root_group # None /\ CountChecks(Unwrap(s.root_group)) > 0
        IN  /\ Headings(md) =
                   <<<<"# K6 Load Test Report">>, <<"## Summary">>>>
                   \o (IF hasThreshold THEN <<<<"## Thresholds">>>> ELSE <<>>)
                   \o (IF hasHttp THEN <<<<"## HTTP Metrics">>>> ELSE <<>>)
                   \o (IF hasCheck THEN <<<<"## Checks">>>> ELSE <<>>)
                   \o <<<<"## All Metrics">>>>
            /\ md[1] = <<"# K6 Load Test Report">>
            /\ IF s.state = None
               THEN md[2] = <<"---">> /\ md[3] = <<"## Summary">>
               ELSE /\ md[2] = <<"**Test Duration:** 1.50s">>
                    /\ md[3] = <<"---">>
                    /\ md[4] = <<"## Summary">>

\* A report with all seven parts, of a summary that also has a sub-metric.
C16_Witness ==
    /\ markdown # None
    /\ Unwrap(summary).state # None
    /\ "http_reqs{status:200}" \in DOMAIN Unwrap(summary).metrics
    /\ Headings(Unwrap(markdown)) =
           <<<<"# K6 Load Test Report">>, <<"## Summary">>, <<"## Thresholds">>,
             <<"## HTTP Metrics">>, <<"## Checks">>, <<"## All Metrics">>>>

====
